---- MODULE Spec2Model ----
(***************************************************************************)
(* Model of src/diffusion.py: the 1D finite-slab diffusion model, the      *)
(* separable 3D model, the whole-block (path-averaged) model and the       *)
(* residual interface used for fitting.                                    *)
(*                                                                         *)
(* Numbers.  The program computes in floating point; the model computes in *)
(* fixed point, exactly:                                                   *)
(*   - a position in microns is an integer number of ticks,                *)
(*     TicksPerMicron ticks to the micron;                                 *)
(*   - a length in meters is an integer number of meter ticks,             *)
(*     MeterTicksPerTick meter ticks to one micron tick, so that the       *)
(*     program's /1e6 and *1e6 are a multiplication and a division;        *)
(*   - a boundary value is an integer number of 1/VDen;                    *)
(*   - a dimensionless shape is an integer number of 1/SDen;               *)
(*   - a profile value is an integer number of 1/YDen, YDen = SDen*VDen;   *)
(*   - a field value is an integer number of 1/FDen, FDen = YDen^3 * VDen. *)
(* erf, exp and cos are the library functions tabulated at a fixed         *)
(* resolution (ErfTab, ExpTab, CosTab).  A float division by zero gives    *)
(* +-inf or nan as numpy does; nan is the value NaN and propagates.        *)
(* Arrays are functions on 0..n-1, as the program indexes them.            *)
(***************************************************************************)
EXTENDS Integers, Sequences, FiniteSets, TLC

VARIABLES params, call, out, pc

vars == <<params, call, out, pc>>

(***************************************************************************)
(* Bounds of the model.                                                    *)
(***************************************************************************)
\* the largest number of grid points a call asks for
MaxPoints == 3
\* the largest series truncation count a call asks for
MaxInfinity == 2
\* the largest number of temperatures of an Arrhenius dataset
MaxTemps == 3

(***************************************************************************)
(* Fixed-point scales.                                                     *)
(***************************************************************************)
TicksPerMicron == 4 * 6
MeterTicksPerTick == 1 + 1
VDen == 1 + 1
SDen == 10 * 10
YDen == SDen * VDen
FDen == YDen * YDen * YDen * VDen
NaN == 0 - 2000000000

Abs(n) == IF n < 0 THEN -n ELSE n

\* integer division rounding toward zero
SDiv(a, b) == IF a >= 0 THEN a \div b ELSE -((-a) \div b)

IsNaN(a) == a = NaN
FAdd(a, b) == IF IsNaN(a) \/ IsNaN(b) THEN NaN ELSE a + b
FSub(a, b) == IF IsNaN(a) \/ IsNaN(b) THEN NaN ELSE a - b
FMul(a, b) == IF IsNaN(a) \/ IsNaN(b) THEN NaN ELSE a * b

\* arrays: functions on 0..n-1
Size(arr) == Cardinality(DOMAIN arr)
Empty == [i \in {} |-> 0]

\* the array with the entries f[0..n-1], each evaluated once
RECURSIVE entries(_, _)
entries(f, n) == IF n = 0 THEN <<>> ELSE entries(f, n - 1) @@ ((n - 1) :> f[n - 1])
array(f) == entries(f, Size(f))

\* optional arguments: Python's None or a value
None == [none |-> TRUE]
Some(val) == [none |-> FALSE, val |-> val]

(***************************************************************************)
(* Library functions.                                                      *)
(***************************************************************************)
\* numpy.linspace(start, stop, num)[j], num >= 2
linspace(start, stop, num, j) == start + SDiv(j * (stop - start), num - 1)

\* 100*erf(k/4), k = 0..8; erf is 1.00 to two places from 2 on
ErfTab == <<0, 28, 52, 71, 84, 92, 97, 99, 100>>
ErfRes == 2 + 2

\* scipy.special.erf(num/den), den >= 0, in 1/SDen; num/0 is +-inf or nan
erf(num, den) ==
    IF den = 0
    THEN IF num = 0 THEN NaN ELSE IF num > 0 THEN SDen ELSE -SDen
    ELSE LET k == (Abs(num) * ErfRes) \div den
             m == IF k + 1 > Len(ErfTab) THEN SDen ELSE ErfTab[k + 1]
         IN  IF num < 0 THEN -m ELSE m

\* 100*exp(-k/16), k = 0..84; 0.00 to two places after that
ExpTab == <<100, 94, 88, 83, 78, 73, 69, 65, 61, 57, 54, 50, 47, 44, 42, 39,
            37, 35, 32, 30, 29, 27, 25, 24, 22, 21, 20, 18, 17, 16, 15, 14,
            14, 13, 12, 11, 11, 10, 9, 9, 8, 8, 7, 7, 6, 6, 6, 5, 5, 5, 4, 4,
            4, 4, 3, 3, 3, 3, 3, 3, 2, 2, 2, 2, 2, 2, 2, 2, 1, 1, 1, 1, 1, 1,
            1, 1, 1, 1, 1, 1, 1, 1, 1, 1, 1>>
ExpRes == 4 * 4

\* 100*cos(k*pi/12), k = 0..23
CosTab == <<100, 97, 87, 71, 50, 26, 0, -26, -50, -71, -87, -97,
            -100, -97, -87, -71, -50, -26, 0, 26, 50, 71, 87, 97>>
CosRes == 2 * 6

\* numpy.pi, to three places, and its square, to two
Pi1000 == 3142
PiSq100 == 987

\* numpy.exp(-q1000 * pi^2 / 1000), in 1/SDen
expNegPiSq(q1000) ==
    IF q1000 > 100000 THEN 0
    ELSE LET k == ((q1000 * PiSq100 * ExpRes) + 50000) \div 100000
         IN  IF k + 1 > Len(ExpTab) THEN 0 ELSE ExpTab[k + 1]

\* numpy.cos(pi * num / den), den > 0, in 1/SDen
cosPi(num, den) == CosTab[(((Abs(num) * CosRes) \div den) % (2 * CosRes)) + 1]

RECURSIVE Pow10(_)
Pow10(e) == IF e = 0 THEN 1 ELSE 10 * Pow10(e - 1)

\* meter ticks to the micron
MeterTicksPerMicron == TicksPerMicron * MeterTicksPerTick

\* 10.**log10D, m2/s, in square meter ticks per second (1 m2 = 1e12 um2)
D_m2s(log10D) == Pow10(log10D + 12) * MeterTicksPerMicron * MeterTicksPerMicron

\* n**0.5 for a perfect square n, found by bisection of lo..hi
RECURSIVE root(_, _, _)
root(n, lo, hi) ==
    IF lo >= hi THEN lo
    ELSE LET m == (lo + hi + 1) \div 2
         IN  IF m * m <= n THEN root(n, m, hi) ELSE root(n, lo, m - 1)
Sqrt(n) == root(n, 0, 2048)

\* microns / 1e6 and meters * 1e6
ToMeters(microns) == microns * MeterTicksPerTick
ToMicrons_unconverted(meters) == meters
ToMicrons(meters) == SDiv(meters, MeterTicksPerTick)

(***************************************************************************)
(* Results.  One record shape for every entry point:                       *)
(*   kind    "profile"  (positions, values) returned                       *)
(*           "residual" residuals returned                                 *)
(*           "None"     the function printed a message and returned None   *)
(*           "False"    the function printed a message and returned False  *)
(*           "TypeError", "IndexError"  the call raised                    *)
(*   printed the messages printed, in order                                *)
(*   x, y    positions and values (1D: arrays; 3D, whole block: triples)   *)
(*   res     the residuals                                                 *)
(*   v       the 3D field (diffusion3Dnpi_params only)                     *)
(***************************************************************************)
Result(kind, printed, x, y, res, v) ==
    [kind |-> kind, printed |-> printed, x |-> x, y |-> y, res |-> res, v |-> v]

MsgNegativeTime == "no negative time"
MsgLength == "x and y data must be the same length"
MsgShape == "x and y data must be the same shape"
MsgMethod == "erf_or_sum must be set to either erf or sum"
MsgFitting == "fitting to data"
MsgRaypaths == "raypaths must be in the form of a list of three abc directions"
MsgRaypath0 == "raypaths[0] for profile || a must be b or c"
MsgRaypath1 == "raypaths[1] for profile || b must be a or c"
MsgRaypath2 == "raypaths[2] for profile || c must be a or b"

(***************************************************************************)
(* 1D diffusion.                                                           *)
(***************************************************************************)
\* params_setup1D: the Parameter Set, values and vary flags
params_setup1D(microns, log10D_m2s, time_seconds, init, fin, vD, vinit, vfin) ==
    [kind  |-> "1D",
     value |-> [microns |-> microns, log10D_m2s |-> log10D_m2s,
                time_seconds |-> time_seconds,
                initial_unit_value |-> init, final_unit_value |-> fin],
     vary  |-> [microns |-> FALSE, log10D_m2s |-> vD, time_seconds |-> FALSE,
                initial_unit_value |-> vinit, final_unit_value |-> vfin]]

\* the direction and the two ends of the concentration range
going_out1D(initial_value, final_value) == initial_value > final_value

solubility1D_unset(initial_value, final_value) == initial_value

solubility1D(initial_value, final_value) ==
    IF initial_value > final_value THEN initial_value ELSE final_value

minimum_value1D(initial_value, final_value) ==
    IF initial_value > final_value THEN final_value ELSE initial_value

negative_time_or_zero(t) == t <= 0

\* the check of the time
negative_time(t) == t < 0

\* whether the call fits: both data given and of the same length
fitting1D(data_x_microns, data_y_unit_areas) ==
    /\ ~data_x_microns.none
    /\ ~data_y_unit_areas.none
    /\ Size(data_x_microns.val) = Size(data_y_unit_areas.val)

\* what the data check prints
printed1D(data_x_microns, data_y_unit_areas) ==
    IF /\ ~data_x_microns.none
       /\ ~data_y_unit_areas.none
       /\ Size(data_x_microns.val) # Size(data_y_unit_areas.val)
    THEN <<MsgLength>>
    ELSE <<>>

\* x, in meters, centered around 0
x_meters1D(fitting, data_x_microns, need_to_center_x_data, a_meters, points) ==
    IF fitting
    THEN [i \in DOMAIN data_x_microns.val |->
             IF need_to_center_x_data
             THEN ToMeters(data_x_microns.val[i]) - a_meters
             ELSE ToMeters(data_x_microns.val[i])]
    ELSE [j \in 0..(points - 1) |-> linspace(-a_meters, a_meters, points, j)]

\* one term of the series
xadd(n, x, D, t, twoA) ==
    LET m == (2 * n) + 1
        sign == IF n % 2 = 0 THEN 1 ELSE -1
        xadd2 == expNegPiSq(m * m * ((D * t * 1000) \div (twoA * twoA)))
        xadd3 == cosPi(m * x, twoA)
    IN  sign * SDiv(xadd2 * xadd3, m)

\* the sum of the terms n..infinity-1, in 1/SDen^2
RECURSIVE xsum(_, _, _, _, _, _)
xsum(n, infinity, x, D, t, twoA) ==
    IF n >= infinity THEN 0
    ELSE xadd(n, x, D, t, twoA) + xsum(n + 1, infinity, x, D, t, twoA)

\* the series method at one position: xsum * 4 / pi
infsum_model(x, D, t, twoA, infinity) ==
    SDiv(xsum(0, infinity, x, D, t, twoA) * 4 * 10, Pi1000)

\* the erf method at one position
erf_model(x, D, t, a_meters) ==
    LET sqrtDt == Sqrt(D * t)
    IN  FSub(FAdd(erf(a_meters + x, 2 * sqrtDt), erf(a_meters - x, 2 * sqrtDt)),
             SDen)

\* the dimensionless diffusion-out shape at one position, in 1/SDen
shape1D(erf_or_sum, x, D, t, L_meters, infinity) ==
    IF erf_or_sum = "infsum"
    THEN infsum_model(x, D, t, L_meters, infinity)
    ELSE erf_model(x, D, t, SDiv(L_meters, 2))

\* the reflection for diffusion in and the rescaling, in 1/YDen
rescale1D(model, going_out, solubility, minimum_value) ==
    LET directed == IF going_out THEN model ELSE FSub(SDen, model)
        concentration_range == solubility - minimum_value
    IN  FAdd(FMul(directed, concentration_range), minimum_value * SDen)

diffusion1D_params(prm, data_x_microns, data_y_unit_areas, erf_or_sum, need_to_center_x_data, infinity, points) ==
    LET p == prm.value
        L_meters == ToMeters(p.microns)
        t == p.time_seconds
        D == D_m2s(p.log10D_m2s)
        initial_value == p.initial_unit_value
        final_value == p.final_unit_value
        going_out == going_out1D(initial_value, final_value)
        solubility == solubility1D(initial_value, final_value)
        minimum_value == minimum_value1D(initial_value, final_value)
        a_meters == SDiv(L_meters, 2)
        fitting == fitting1D(data_x_microns, data_y_unit_areas)
        printed == printed1D(data_x_microns, data_y_unit_areas)
        x == array(x_meters1D(fitting, data_x_microns, need_to_center_x_data,
                              a_meters, points))
        model == array([i \in DOMAIN x |->
                     rescale1D(shape1D(erf_or_sum, x[i], D, t, L_meters, infinity),
                               going_out, solubility, minimum_value)])
        x_microns == array([i \in DOMAIN x |-> ToMicrons(x[i])])
    IN  IF negative_time(t)
        THEN Result("None", <<MsgNegativeTime>>, Empty, Empty, Empty, Empty)
        ELSE IF erf_or_sum \notin {"infsum", "erf"}
        THEN Result("False", printed \o <<MsgMethod>>, Empty, Empty, Empty, Empty)
        ELSE IF ~fitting
        THEN Result("profile", printed, x_microns, model, Empty, Empty)
        ELSE Result("residual", printed, Empty, Empty,
                    array([i \in DOMAIN x |->
                              FSub(model[i], data_y_unit_areas.val[i])]),
                    Empty)

(***************************************************************************)
(* 3D diffusion without path integration.                                  *)
(***************************************************************************)
\* params_setup3D: the Parameter Set, values and vary flags
params_setup3D(microns3, log10D3, time_seconds, initial, final, vD, vinit, vfin) ==
    [kind  |-> "3D",
     value |-> [microns3 |-> microns3,
                log10Dx |-> log10D3[0], log10Dy |-> log10D3[1],
                log10Dz |-> log10D3[2], time_seconds |-> time_seconds,
                initial_unit_value_a |-> initial, initial_unit_value_b |-> initial,
                initial_unit_value_c |-> initial,
                final_unit_value_a |-> final, final_unit_value_b |-> final,
                final_unit_value_c |-> final],
     vary  |-> [microns3 |-> FALSE,
                log10Dx |-> vD[0], log10Dy |-> vD[1], log10Dz |-> vD[2],
                time_seconds |-> FALSE,
                initial_unit_value_a |-> vinit, initial_unit_value_b |-> vinit,
                initial_unit_value_c |-> vinit,
                final_unit_value_a |-> vfin, final_unit_value_b |-> vfin,
                final_unit_value_c |-> vfin]]

\* numpy.shape of three lists made an array: (3, n), or (3,) when ragged
np_shape(d) ==
    IF \A k \in 0..2 : Size(d[k]) = Size(d[0]) THEN <<3, Size(d[0])>> ELSE <<3>>

\* whether the call fits: both data given and of the same shape
fitting3D(data_x_microns, data_y_unit_areas) ==
    /\ ~data_x_microns.none
    /\ ~data_y_unit_areas.none
    /\ np_shape(data_x_microns.val) = np_shape(data_y_unit_areas.val)

\* what the data check prints
printed3D(data_x_microns, data_y_unit_areas) ==
    IF data_x_microns.none \/ data_y_unit_areas.none THEN <<>>
    ELSE IF np_shape(data_x_microns.val) = np_shape(data_y_unit_areas.val)
    THEN <<MsgFitting>>
    ELSE <<MsgShape>>

\* one pass of the loop that scales the initial value and finds the direction
scale_step(s, fin) ==
    LET s1 == IF s.init > VDen THEN [s EXCEPT !.scale = s.init, !.init = VDen]
              ELSE s
    IN  IF s1.init < fin THEN [s1 EXCEPT !.going_out = FALSE] ELSE s1

\* the loop, for k in range(3): init, scale and going_out after it
scale_loop(init, fin) ==
    scale_step(scale_step(scale_step(
        [init |-> init, scale |-> VDen, going_out |-> TRUE], fin), fin), fin)

minimum_value3D(init, fin) ==
    LET s == scale_loop(init, fin)
    IN  IF s.init > fin THEN fin ELSE s.init

\* the boundary values handed to the 1D model: swapped for diffusion in
boundary3D(init, fin) ==
    LET s == scale_loop(init, fin)
    IN  IF s.going_out THEN [init |-> s.init, fin |-> fin]
        ELSE [init |-> fin, fin |-> s.init]

\* the Parameter Set of the 1D evaluation along axis k
p1D(prm, k) ==
    LET p == prm.value
        b == boundary3D(p.initial_unit_value_a, p.final_unit_value_a)
        log10D3 == <<p.log10Dx, p.log10Dy, p.log10Dz>>
        vary_D == <<prm.vary.log10Dx, prm.vary.log10Dy, prm.vary.log10Dz>>
        vary_init == <<prm.vary.initial_unit_value_a, prm.vary.initial_unit_value_b,
                       prm.vary.initial_unit_value_c>>
        vary_fin == <<prm.vary.final_unit_value_a, prm.vary.final_unit_value_b,
                      prm.vary.final_unit_value_c>>
    IN  [kind  |-> "1D",
         value |-> [microns |-> p.microns3[k], log10D_m2s |-> log10D3[k + 1],
                    time_seconds |-> p.time_seconds,
                    initial_unit_value |-> b.init, final_unit_value |-> b.fin],
         vary  |-> [microns |-> FALSE, log10D_m2s |-> vary_D[k + 1],
                    time_seconds |-> prm.vary.time_seconds,
                    initial_unit_value |-> vary_init[k + 1],
                    final_unit_value |-> vary_fin[k + 1]]]

\* the 1D evaluation along axis k: only points is passed on
profile1D(prm, k, points) ==
    diffusion1D_params(p1D(prm, k), None, None, "erf", TRUE, 100, points)

field3D_transposed(yprofiles, scale, going_out, minimum_value, points) ==
    array([d \in 0..(points - 1) |->
    array([e \in 0..(points - 1) |->
    array([f \in 0..(points - 1) |->
        LET v1 == FMul(FMul(yprofiles[0][e], yprofiles[1][d]), yprofiles[2][f])
            v2 == FMul(v1, scale)
        IN  IF going_out THEN v2
            ELSE FAdd(FSub(FDen, v2), minimum_value * (FDen \div VDen))])])])

\* the product of the three profiles, scaled, and reflected for diffusion in
field3D(yprofiles, scale, going_out, minimum_value, points) ==
    array([d \in 0..(points - 1) |->
    array([e \in 0..(points - 1) |->
    array([f \in 0..(points - 1) |->
        LET v1 == FMul(FMul(yprofiles[0][d], yprofiles[1][e]), yprofiles[2][f])
            v2 == FMul(v1, scale)
        IN  IF going_out THEN v2
            ELSE FAdd(FSub(FDen, v2), minimum_value * (FDen \div VDen))])])])

\* numpy slicing m[:, j]
Col(m, j) == [i \in DOMAIN m |-> m[i][j]]

mid_npi_up(points) == (points + 1) \div 2

\* the center index: points/2. used as an index, which numpy truncates
mid_npi(points) == points \div 2

sliceprofiles3D(v, points) ==
    LET mid == mid_npi(points)
    IN  [k \in 0..2 |-> CASE k = 0 -> Col(Col(v, mid), mid)
                          [] k = 1 -> Col(v[mid], mid)
                          [] k = 2 -> v[mid][mid]]

\* positions from 0 to the edge length of axis k
positions3D(L3_microns, points) ==
    [k \in 0..2 |-> [j \in 0..(points - 1) |->
                        linspace(0, SDiv(L3_microns[k], 2) * 2, points, j)]]

diffusion3Dnpi_params(prm, data_x_microns, data_y_unit_areas, erf_or_sum, need_to_center_x_data, infinity, points) ==
    LET p == prm.value
        fitting == fitting3D(data_x_microns, data_y_unit_areas)
        printed == printed3D(data_x_microns, data_y_unit_areas)
        s == scale_loop(p.initial_unit_value_a, p.final_unit_value_a)
        minimum_value == minimum_value3D(p.initial_unit_value_a,
                                         p.final_unit_value_a)
        first == profile1D(prm, 0, points)
        yprofiles == array([k \in 0..2 |-> profile1D(prm, k, points).y])
        v == field3D(yprofiles, s.scale, s.going_out, minimum_value, points)
        sliceprofiles == array(sliceprofiles3D(v, points))
    IN  IF first.kind # "profile"
        THEN Result("TypeError", printed \o first.printed, Empty, Empty, Empty, Empty)
        ELSE IF ~fitting
        THEN Result("profile", printed, positions3D(p.microns3, points),
                    sliceprofiles, Empty, v)
        ELSE Result("residual", printed, Empty, Empty,
                    [k \in 0..2 |-> [n \in 0..(points - 1) |-> 0]], Empty)

(***************************************************************************)
(* 3D whole-block: diffusion with path integration.                        *)
(***************************************************************************)
\* the sum of arr[0..n-1], nan if any entry is
RECURSIVE FSum(_, _)
FSum(arr, n) == IF n = 0 THEN 0 ELSE FAdd(FSum(arr, n - 1), arr[n - 1])

\* numpy mean of a one-dimensional array
mean1(arr) ==
    LET total == FSum(arr, Size(arr))
    IN  IF IsNaN(total) THEN NaN ELSE SDiv(total, Size(arr))

\* v.mean(axis=0), v.mean(axis=1), v.mean(axis=2)
mean_axis0(v) == array([j \in DOMAIN v |-> array([k \in DOMAIN v |->
                     mean1([i \in DOMAIN v |-> v[i][j][k]])])])
mean_axis1(v) == array([i \in DOMAIN v |-> array([k \in DOMAIN v |->
                     mean1([j \in DOMAIN v |-> v[i][j][k]])])])
mean_axis2(v) == array([i \in DOMAIN v |-> array([j \in DOMAIN v |->
                     mean1([k \in DOMAIN v |-> v[i][j][k]])])])

\* the center index: points/2, an integer division
mid_wb(points) == points \div 2

bad_raypath_any_label(raypaths) ==
    IF raypaths[0] \notin {"a", "b", "c"} THEN 0
    ELSE IF raypaths[1] \notin {"a", "c"} THEN 1
    ELSE IF raypaths[2] \notin {"a", "b"} THEN 2
    ELSE 3

\* the first ray-path label that is not valid for its direction, or 3
bad_raypath(raypaths) ==
    IF raypaths[0] \notin {"b", "c"} THEN 0
    ELSE IF raypaths[1] \notin {"a", "c"} THEN 1
    ELSE IF raypaths[2] \notin {"a", "b"} THEN 2
    ELSE 3

wb_profiles3D_column(v, raypaths, points) ==
    LET raypathA == mean_axis0(v)
        raypathB == mean_axis1(v)
        raypathC == mean_axis2(v)
        mid == mid_wb(points)
        wbA == IF raypaths[0] = "b" THEN Col(raypathB, mid) ELSE Col(raypathC, mid)
        wbB == IF raypaths[1] = "a" THEN Col(raypathA, mid) ELSE Col(raypathC, mid)
        wbC == IF raypaths[2] = "a" THEN raypathA[mid] ELSE raypathB[mid]
    IN  [k \in 0..2 |-> CASE k = 0 -> wbA [] k = 1 -> wbB [] k = 2 -> wbC]

\* the whole-block profiles in the model, for valid ray paths
wb_profiles3D(v, raypaths, points) ==
    LET raypathA == mean_axis0(v)
        raypathB == mean_axis1(v)
        raypathC == mean_axis2(v)
        mid == mid_wb(points)
        wbA == IF raypaths[0] = "b" THEN Col(raypathB, mid) ELSE Col(raypathC, mid)
        wbB == IF raypaths[1] = "a" THEN Col(raypathA, mid) ELSE raypathC[mid]
        wbC == IF raypaths[2] = "a" THEN raypathA[mid] ELSE raypathB[mid]
    IN  [k \in 0..2 |-> CASE k = 0 -> wbA [] k = 1 -> wbB [] k = 2 -> wbC]

\* positions from 0 to the edge length of direction k
wb_positions3D(L3, points) ==
    [k \in 0..2 |-> array([j \in 0..(points - 1) |->
                        linspace(0, 2 * SDiv(L3[k], 2), points, j)])]

argmin_abs_last(positions, microns) ==
    CHOOSE i \in DOMAIN positions :
        /\ \A j \in DOMAIN positions :
              Abs(positions[i] - microns) <= Abs(positions[j] - microns)
        /\ \A j \in DOMAIN positions :
              Abs(positions[j] - microns) = Abs(positions[i] - microns) => i >= j

\* numpy.abs(positions - microns).argmin(): the first index of the least
argmin_abs(positions, microns) ==
    CHOOSE i \in DOMAIN positions :
        /\ \A j \in DOMAIN positions :
              Abs(positions[i] - microns) <= Abs(positions[j] - microns)
        /\ \A j \in DOMAIN positions :
              Abs(positions[j] - microns) = Abs(positions[i] - microns) => i <= j

\* the residuals of direction k, in the order of the data
residuals_k(wb_positions, wb_profiles, x_array, y_array, k) ==
    [pos \in DOMAIN x_array[k] |->
        FSub(wb_profiles[k][argmin_abs(wb_positions[k], x_array[k][pos])],
             y_array[k][pos])]

\* the list the loop over k and pos appends to
residuals3D(wb_positions, wb_profiles, x_array, y_array) ==
    LET r == [k \in 0..2 |->
                 residuals_k(wb_positions, wb_profiles, x_array, y_array, k)]
        n0 == Size(r[0])
        n1 == Size(r[1])
        n2 == Size(r[2])
    IN  [i \in 0..(n0 + n1 + n2 - 1) |->
            IF i < n0 THEN r[0][i]
            ELSE IF i < n0 + n1 THEN r[1][i - n0]
            ELSE r[2][i - n0 - n1]]

diffusion3Dwb_params(prm, data_x_microns, data_y_unit_areas, raypaths, erf_or_sum, need_to_center_x_data, infinity, points) ==
    LET npi == diffusion3Dnpi_params(prm, None, None, erf_or_sum,
                                     need_to_center_x_data, 100, points)
        fitting == fitting3D(data_x_microns, data_y_unit_areas)
        printed == npi.printed \o printed3D(data_x_microns, data_y_unit_areas)
        bad == bad_raypath(raypaths.val)
        wb_profiles == array(wb_profiles3D(npi.v, raypaths.val, points))
        wb_positions == array(wb_positions3D(prm.value.microns3, points))
        x_array == data_x_microns.val
        y_array == data_y_unit_areas.val
    IN  IF raypaths.none
        THEN Result("None", <<MsgRaypaths>>, Empty, Empty, Empty, Empty)
        ELSE IF npi.kind = "TypeError"
        THEN Result("TypeError", npi.printed, Empty, Empty, Empty, Empty)
        ELSE IF bad < 3
        THEN Result("None",
                    printed \o <<(<<MsgRaypath0, MsgRaypath1, MsgRaypath2>>)[bad + 1]>>,
                    Empty, Empty, Empty, Empty)
        ELSE IF ~fitting
        THEN Result("profile", printed, wb_positions, wb_profiles, Empty, Empty)
        ELSE IF \E k \in 0..2 : Size(y_array[k]) < Size(x_array[k])
        THEN Result("IndexError", printed, Empty, Empty, Empty, Empty)
        ELSE Result("residual", printed, Empty, Empty,
                    residuals3D(wb_positions, wb_profiles, x_array, y_array), Empty)

(***************************************************************************)
(* Arrhenius line.  Temperatures are integers of 1/100 degree Celsius,     *)
(* inverse temperatures 1e4/T and log10 D are integers; the fitted         *)
(* polynomial and the line are exact fractions.                            *)
(***************************************************************************)
MsgArrhenius == "List of temperatures not equal to list of diffusivities"

\* the number of points of the line
LinePoints == 100

\* 1.0e4 / (k + 273.15), k in 1/100 degree
inverse_temperature(k100) == 1000000 \div (k100 + 27315)

\* the temperature at which k + 273.15 is 0
AbsoluteZero == 0 - 27315

\* numpy.polyfit(Tx, logD, 1) for a non-empty Tx: the least-squares line
\* m/den * x + c/den; the least-norm one of the scaled system when every
\* Tx is the same
polyfit1(Tx, logD) ==
    LET n == Size(Tx)
        sx == FSum(Tx, n)
        sy == FSum(logD, n)
        sxx == FSum([i \in DOMAIN Tx |-> Tx[i] * Tx[i]], n)
        sxy == FSum([i \in DOMAIN Tx |-> Tx[i] * logD[i]], n)
        det == (n * sxx) - (sx * sx)
    IN  IF det # 0
        THEN [m |-> (n * sxy) - (sx * sy), c |-> (sy * sxx) - (sx * sxy),
              den |-> det]
        ELSE [m |-> sy, c |-> sy * Tx[0], den |-> 2 * n * Tx[0]]

line_x_open(lowD, highD, j) == linspace(lowD * LinePoints, highD * LinePoints, LinePoints + 1, j)

\* numpy.linspace(lowD, highD, 100)[j], in 1/99
line_x(lowD, highD, j) ==
    linspace(lowD * (LinePoints - 1), highD * (LinePoints - 1), LinePoints, j)

\* numpy.polyval(p, x) for x in 1/99: a fraction
polyval1(p, x) ==
    [num |-> (p.m * x) + (p.c * (LinePoints - 1)), den |-> p.den * (LinePoints - 1)]

make_Arrhenius_line(celcius_list, logD_list, lowD, highD) ==
    LET Tx == array([k \in DOMAIN celcius_list |->
                  inverse_temperature(celcius_list[k])])
        p == polyfit1(Tx, logD_list)
        x == array([j \in 0..(LinePoints - 1) |-> line_x(lowD, highD, j)])
        y == array([j \in 0..(LinePoints - 1) |-> polyval1(p, x[j])])
    IN  IF Size(celcius_list) # Size(logD_list)
        THEN Result("None", <<MsgArrhenius>>, Empty, Empty, Empty, Empty)
        ELSE IF \E k \in DOMAIN celcius_list : celcius_list[k] = AbsoluteZero
        THEN Result("ZeroDivisionError", <<>>, Empty, Empty, Empty, Empty)
        ELSE IF Size(celcius_list) = 0
        THEN Result("TypeError", <<>>, Empty, Empty, Empty, Empty)
        ELSE Result("profile", <<>>, x, y, Empty, Empty)

(***************************************************************************)
(* The state machine.  A caller builds a Parameter Set, evaluates a model  *)
(* on it and later drops the result.                                       *)
(*   params  the Parameter Set the caller holds                            *)
(*   call    the arguments of the last evaluation                          *)
(*   out     what the last evaluation printed and returned                 *)
(*   pc      "idle": no result held; "done": a result is held              *)
(***************************************************************************)
NoParams == [kind |-> "none"]
NoCall == [fn |-> "none"]
NoResult == [kind |-> "none"]

\* the inputs the model draws from
Values == {0, 1, 2, 4}
Times == {-1, 0, 1}
Log10Ds == {-12, -10}
Microns1D == {4 * TicksPerMicron}
PointsSet == 2..MaxPoints
InfinitySet == 1..MaxInfinity
Methods == {"erf", "infsum", "sum"}

\* measured data for the 1D model: positions in ticks, values in 1/YDen
DataX1D == {[i \in 0..2 |-> i * 2 * TicksPerMicron],
            [i \in 0..1 |-> (2 * i - 1) * TicksPerMicron]}
DataY1D == {[i \in 0..2 |-> (2 - i) * SDen], [i \in 0..1 |-> (i + 1) * SDen]}

Args1D == 
    [fn : {"diffusion1D_params"}, data_x : {None}, data_y : {None},
     erf_or_sum : Methods, need_to_center_x_data : {TRUE},
     infinity : InfinitySet, points : PointsSet, own : {FALSE}]
    \cup
    [fn : {"diffusion1D_params"}, data_x : {Some(d) : d \in DataX1D},
     data_y : {None} \cup {Some(d) : d \in DataY1D},
     erf_or_sum : {"erf", "infsum"}, need_to_center_x_data : BOOLEAN,
     infinity : {MaxInfinity}, points : {MaxPoints}, own : {FALSE}]

\* the two blocks the model evaluates: edge lengths in ticks, log10 D
Blocks ==
    {[microns3 |-> [k \in 0..2 |-> IF k = 0 THEN 4 * TicksPerMicron
                                    ELSE 8 * TicksPerMicron],
      log10D3 |-> [k \in 0..2 |-> -12]],
     [microns3 |-> [k \in 0..2 |-> IF k = 0 THEN 8 * TicksPerMicron
                                    ELSE 4 * TicksPerMicron],
      log10D3 |-> [k \in 0..2 |-> IF k = 1 THEN -10 ELSE -12]]}

\* measured data for the 3D models: positions in ticks, values in 1/FDen;
\* len[k] is the number of measurements along direction k
Regular(n) == [k \in 0..2 |-> n]
Ragged == [k \in 0..2 |-> IF k = 0 THEN 2 ELSE 1]
XPos(k, i) == ((10 * i) + k - 1) * TicksPerMicron
YVal(k, i) == (k + i) * (FDen \div 4)
XData(len) == [k \in 0..2 |-> [i \in 0..(len[k] - 1) |-> XPos(k, i)]]
YData(len) == [k \in 0..2 |-> [i \in 0..(len[k] - 1) |-> YVal(k, i)]]
DataX3D == {XData(Regular(2)), XData(Ragged)}
DataY3D == {YData(Regular(2)), YData(Ragged), YData(Regular(1))}

Raypaths == [0..2 -> {"a", "b", "c"}]
SomeRaypaths ==
    {[k \in 0..2 |-> IF k = 0 THEN "b" ELSE "a"],
     [k \in 0..2 |-> IF k = 2 THEN "b" ELSE "c"],
     [k \in 0..2 |-> "a"]}

Args3Dnpi ==
    [fn : {"diffusion3Dnpi_params"},
     data_x : {None, Some(XData(Regular(2)))},
     data_y : {None, Some(YData(Regular(2))), Some(YData(Regular(1)))},
     erf_or_sum : Methods, need_to_center_x_data : {TRUE},
     infinity : {MaxInfinity}, points : PointsSet]

Args3Dwb ==
    [fn : {"diffusion3Dwb_params"}, data_x : {None}, data_y : {None},
     raypaths : {None} \cup {Some(r) : r \in Raypaths},
     erf_or_sum : {"erf"}, need_to_center_x_data : {TRUE},
     infinity : {MaxInfinity}, points : PointsSet]
    \cup
    [fn : {"diffusion3Dwb_params"}, data_x : {Some(d) : d \in DataX3D},
     data_y : {Some(d) : d \in DataY3D},
     raypaths : {Some(r) : r \in SomeRaypaths},
     erf_or_sum : Methods, need_to_center_x_data : {TRUE},
     infinity : {MaxInfinity}, points : {MaxPoints}]

Apply3Dnpi(prm, a) ==
    diffusion3Dnpi_params(prm, a.data_x, a.data_y, a.erf_or_sum,
                          a.need_to_center_x_data, a.infinity, a.points)

Apply3Dwb(prm, a) ==
    diffusion3Dwb_params(prm, a.data_x, a.data_y, a.raypaths, a.erf_or_sum,
                         a.need_to_center_x_data, a.infinity, a.points)

Apply1D(prm, a) ==
    diffusion1D_params(prm, a.data_x, a.data_y, a.erf_or_sum,
                       a.need_to_center_x_data, a.infinity, a.points)

Init ==
    /\ params = NoParams
    /\ call = NoCall
    /\ out = NoResult
    /\ pc = "idle"

\* the caller builds a 1D Parameter Set
Setup1D ==
    /\ pc = "idle"
    /\ \E microns \in Microns1D, log10D \in Log10Ds, t \in Times,
          init \in Values, fin \in Values, vD \in BOOLEAN :
          params' = params_setup1D(microns, log10D, t, init, fin, vD, FALSE, FALSE)
    /\ UNCHANGED <<call, out, pc>>

\* the caller builds a 3D Parameter Set, the diffusivity along b to be fitted
Setup3D ==
    /\ pc = "idle"
    /\ \E b \in Blocks, t \in Times, init \in Values, fin \in Values :
          params' = params_setup3D(b.microns3, b.log10D3, t, init, fin,
                                   [k \in 0..2 |-> k = 1], FALSE, FALSE)
    /\ UNCHANGED <<call, out, pc>>

Eval3Dnpi_in_place ==
    /\ pc = "idle"
    /\ params.kind = "3D"
    /\ \E a \in Args3Dnpi :
          /\ call' = a
          /\ out' = Apply3Dnpi(params, a)
    /\ pc' = "done"
    /\ LET b == boundary3D(params.value.initial_unit_value_a,
                           params.value.final_unit_value_a)
       IN  params' = [params EXCEPT !.value.initial_unit_value_a = b.init,
                                    !.value.final_unit_value_a = b.fin]

\* diffusion3Dnpi_params on the Parameter Set held
Eval3Dnpi ==
    /\ pc = "idle"
    /\ params.kind = "3D"
    /\ \E a \in Args3Dnpi :
          /\ call' = a
          /\ out' = Apply3Dnpi(params, a)
    /\ pc' = "done"
    /\ UNCHANGED params

\* diffusion3Dwb_params on the Parameter Set held
Eval3Dwb ==
    /\ pc = "idle"
    /\ params.kind = "3D"
    /\ \E a \in Args3Dwb :
          /\ call' = a
          /\ out' = Apply3Dwb(params, a)
    /\ pc' = "done"
    /\ UNCHANGED params

\* diffusion1D_params on the Parameter Set held
Eval1D ==
    /\ pc = "idle"
    /\ params.kind = "1D"
    /\ \E a \in Args1D :
          /\ call' = a
          /\ out' = Apply1D(params, a)
    /\ pc' = "done"
    /\ UNCHANGED params

\* diffusion1D_params again, fitting the profile the last call synthesized
Refit1D ==
    /\ pc = "done"
    /\ call.fn = "diffusion1D_params"
    /\ out.kind = "profile"
    /\ \E center \in BOOLEAN :
          LET a == [call EXCEPT !.data_x = Some(out.x), !.data_y = Some(out.y),
                                !.need_to_center_x_data = center, !.own = TRUE]
          IN  /\ call' = a
              /\ out' = Apply1D(params, a)
    /\ UNCHANGED <<params, pc>>

\* the caller drops the result
Discard ==
    /\ pc = "done"
    /\ call' = NoCall
    /\ out' = NoResult
    /\ pc' = "idle"
    /\ UNCHANGED params

\* the fields of the Parameter Set the optimizer may change
varying(prm) == {f \in DOMAIN prm.vary : prm.vary[f]}

\* between two evaluations the optimizer changes a varying diffusivity
Update ==
    /\ pc = "idle"
    /\ params.kind # "none"
    /\ \E f \in varying(params), val \in Log10Ds :
          params' = [params EXCEPT !.value[f] = val]
    /\ UNCHANGED <<call, out, pc>>

Next ==
    \/ Setup1D
    \/ Setup3D
    \/ Eval1D
    \/ Eval3Dnpi
    \/ Eval3Dwb
    \/ Refit1D
    \/ Discard
    \/ Update

Spec == Init /\ [][Next]_vars

(***************************************************************************)
(* The Arrhenius component is independent of the diffusion models: a       *)
(* caller fits a line to a dataset and later drops it.                     *)
(***************************************************************************)
Celcius == {72685, 97685, AbsoluteZero}
LogDs == {-12, -10}
Lists(S) == UNION {[0..(n - 1) -> S] : n \in 0..MaxTemps}
Ranges == {<<6, 10>>, <<5, 5>>, <<10, 6>>}

ArgsArrhenius ==
    [fn : {"make_Arrhenius_line"}, celcius_list : Lists(Celcius),
     logD_list : Lists(LogDs), range : Ranges]

ApplyArrhenius(a) ==
    make_Arrhenius_line(a.celcius_list, a.logD_list, a.range[1], a.range[2])

\* make_Arrhenius_line on a dataset
FitArrhenius ==
    /\ pc = "idle"
    /\ \E a \in ArgsArrhenius :
          /\ call' = a
          /\ out' = ApplyArrhenius(a)
    /\ pc' = "done"
    /\ UNCHANGED params

NextArrhenius ==
    \/ FitArrhenius
    \/ Discard

SpecArrhenius == Init /\ [][NextArrhenius]_vars

(***************************************************************************)
(* Properties.                                                             *)
(***************************************************************************)
Max(a, b) == IF a >= b THEN a ELSE b
Min(a, b) == IF a <= b THEN a ELSE b

\* the last evaluation was of fn and has ended
Evaluated(fn) == pc = "done" /\ call.fn = fn

\* the last evaluation returned values: a profile or residuals
Returned == out.kind \in {"profile", "residual"}

\* the positions, in meters, a 1D evaluation that returned computed at
x_of_call ==
    IF out.kind = "profile"
    THEN [i \in DOMAIN out.x |-> ToMeters(out.x[i])]
    ELSE [i \in DOMAIN call.data_x.val |->
             IF call.need_to_center_x_data
             THEN ToMeters(call.data_x.val[i])
                  - SDiv(ToMeters(params.value.microns), 2)
             ELSE ToMeters(call.data_x.val[i])]

\* the dimensionless diffusion-out shape at position i of the last 1D call
shape_of_call(i) ==
    shape1D(call.erf_or_sum, x_of_call[i], D_m2s(params.value.log10D_m2s),
            params.value.time_seconds, ToMeters(params.value.microns),
            call.infinity)

\* position i of the last 1D call returned the model value, or its residual
returned_value(i, value) ==
    IF out.kind = "profile" THEN out.y[i] = value
    ELSE out.res[i] = FSub(value, call.data_y.val[i])

\* C1: in diffusion1D_params the evaluation is diffusion out exactly when
\* initial_value > final_value and diffusion in otherwise; solubility is the
\* larger and minimum the smaller boundary value; the value at each position
\* is shape*(solubility-minimum)+minimum for diffusion out and
\* (1-shape)*(solubility-minimum)+minimum for diffusion in (nan where the
\* shape is nan); so a shape in [0,1] gives a value in [minimum, solubility],
\* and with initial = final every value computed from a shape that is a
\* number is that boundary value.
C1_DirectionAndRescale ==
    (Evaluated("diffusion1D_params") /\ Returned) =>
        LET initial == params.value.initial_unit_value
            final == params.value.final_unit_value
            solubility == Max(initial, final)
            minimum == Min(initial, final)
        IN  \A i \in DOMAIN x_of_call :
                LET shape == shape_of_call(i)
                    value ==
                        IF IsNaN(shape) THEN NaN
                        ELSE IF initial > final
                        THEN (shape * (solubility - minimum)) + (minimum * SDen)
                        ELSE ((SDen - shape) * (solubility - minimum))
                             + (minimum * SDen)
                IN  /\ returned_value(i, value)
                    /\ shape \in 0..SDen =>
                          value \in (minimum * SDen)..(solubility * SDen)
                    /\ ~IsNaN(shape) /\ initial = final =>
                          returned_value(i, initial * SDen)

\* a diffusion-in profile with a value strictly inside the range
C1_Witness ==
    /\ Evaluated("diffusion1D_params")
    /\ out.kind = "profile"
    /\ params.value.initial_unit_value < params.value.final_unit_value
    /\ \E i \in DOMAIN out.y :
          /\ shape_of_call(i) \in 1..(SDen - 1)
          /\ out.y[i] > params.value.initial_unit_value * SDen
          /\ out.y[i] < params.value.final_unit_value * SDen

\* C2 as claimed: fitting the 1D model to the profile it synthesized, with
\* the same parameters and method, gives a residual of 0 at every position,
\* with re-centering of the positions on (the default) or off.  Stated for
\* the positions whose synthesized value is a number.
C2_RoundTripAnyCentering ==
    (Evaluated("diffusion1D_params") /\ call.own) =>
        /\ out.kind = "residual"
        /\ \A i \in DOMAIN out.res :
              ~IsNaN(call.data_y.val[i]) => out.res[i] = 0

\* C2, amended: with re-centering off, fitting the 1D model to the profile it
\* synthesized gives a residual of 0 at every position whose synthesized
\* value is a number, and nan where it is nan.
C2_RoundTripUncentered ==
    (Evaluated("diffusion1D_params") /\ call.own
     /\ ~call.need_to_center_x_data) =>
        /\ out.kind = "residual"
        /\ DOMAIN out.res = DOMAIN call.data_x.val
        /\ \A i \in DOMAIN out.res :
              IF IsNaN(call.data_y.val[i]) THEN IsNaN(out.res[i])
              ELSE out.res[i] = 0

\* a round trip, re-centering off, of a profile that is not constant
C2_Witness ==
    /\ Evaluated("diffusion1D_params")
    /\ call.own
    /\ ~call.need_to_center_x_data
    /\ out.kind = "residual"
    /\ \E i, j \in DOMAIN out.res :
          /\ ~IsNaN(call.data_y.val[i])
          /\ ~IsNaN(call.data_y.val[j])
          /\ call.data_y.val[i] # call.data_y.val[j]
          /\ out.res[i] = 0
          /\ out.res[j] = 0

\* the three per-axis 1D profiles of the last 3D evaluation
profiles_of_call == [k \in 0..2 |-> profile1D(params, k, call.points).y]

\* the scale factor, the direction and the minimum of the last 3D evaluation
scale_of_call ==
    scale_loop(params.value.initial_unit_value_a, params.value.final_unit_value_a)
minimum_of_call ==
    minimum_value3D(params.value.initial_unit_value_a,
                    params.value.final_unit_value_a)

\* the product of the three profiles at (i, j, k), times the scale factor
scaled_product(y, i, j, k) ==
    FMul(FMul(FMul(y[0][i], y[1][j]), y[2][k]), scale_of_call.scale)

Grid == 0..(call.points - 1)

\* C3 as claimed: for diffusion out and in, every cell of the field returned
\* by diffusion3Dnpi_params is the product of the three per-axis profiles,
\* after the scale correction.
C3_SeparableOutAndIn ==
    (Evaluated("diffusion3Dnpi_params") /\ out.kind = "profile") =>
        LET y == array(profiles_of_call)
        IN  \A i, j, k \in Grid : out.v[i][j][k] = scaled_product(y, i, j, k)

\* C3, amended: when the evaluation is treated as diffusion out, every cell
\* of the field is the scale factor times the product of the three per-axis
\* profiles; when it is treated as diffusion in, every cell is 1 minus that
\* scaled product plus the minimum value.
C3_Separable ==
    (Evaluated("diffusion3Dnpi_params") /\ out.kind = "profile") =>
        LET y == array(profiles_of_call)
        IN  /\ DOMAIN out.v = Grid
            /\ \A i, j, k \in Grid :
                  IF scale_of_call.going_out
                  THEN out.v[i][j][k] = scaled_product(y, i, j, k)
                  ELSE out.v[i][j][k] =
                           FAdd(FSub(FDen, scaled_product(y, i, j, k)),
                                minimum_of_call * (FDen \div VDen))

\* a diffusion-out field, scaled, whose profiles along axes 0 and 1 differ
C3_Witness ==
    /\ Evaluated("diffusion3Dnpi_params")
    /\ out.kind = "profile"
    /\ scale_of_call.going_out
    /\ scale_of_call.scale > VDen
    /\ \E i, j, k \in Grid :
          /\ ~IsNaN(out.v[i][j][k])
          /\ out.v[i][j][k] > 0
          /\ out.v[i][j][k] # out.v[j][i][k]

\* the field of the last whole-block evaluation
field_of_call ==
    diffusion3Dnpi_params(params, None, None, "erf", TRUE, 100, call.points).v

\* the field axis a direction or ray-path label names
axis_of(label) == CASE label = "a" -> 0 [] label = "b" -> 1 [] label = "c" -> 2

\* the field cell with index n along axis d, m along axis r, c along the third
cell(v, d, r, n, m, c) ==
    LET idx == [ax \in 0..2 |-> IF ax = d THEN n ELSE IF ax = r THEN m ELSE c]
    IN  v[idx[0]][idx[1]][idx[2]]

\* the mean over m of the cells (n along d, m along r, center along the third)
path_average(v, d, r, n) ==
    LET center == call.points \div 2
        total == FSum([m \in Grid |-> cell(v, d, r, n, m, center)], call.points)
    IN  IF IsNaN(total) THEN NaN ELSE SDiv(total, call.points)

\* C4: entry n of the whole-block profile for direction d with ray path r is
\* the mean, over the index along the axis of r, of the field cells whose
\* index along the axis of d is n and whose index along the third axis is the
\* center index floor(points/2); each profile has points entries.
C4_WholeBlockAveraging ==
    (Evaluated("diffusion3Dwb_params") /\ out.kind = "profile") =>
        LET v == field_of_call
        IN  \A d \in 0..2 :
                /\ DOMAIN out.y[d] = Grid
                /\ axis_of(call.raypaths.val[d]) # d
                /\ \A n \in Grid :
                      out.y[d][n] =
                          path_average(v, d, axis_of(call.raypaths.val[d]), n)

\* whole-block profiles on an odd grid, ray paths b, c and a, that are not
\* constant along direction b
C4_Witness ==
    /\ Evaluated("diffusion3Dwb_params")
    /\ out.kind = "profile"
    /\ call.points = 3
    /\ call.raypaths.val[0] = "b"
    /\ call.raypaths.val[1] = "c"
    /\ call.raypaths.val[2] = "a"
    /\ ~IsNaN(out.y[1][0])
    /\ ~IsNaN(out.y[1][1])
    /\ out.y[1][0] # out.y[1][1]

\* the whole-block profiles and positions the last fitting call compared with
wb_profiles_of_call ==
    LET v == field_of_call
    IN  array([d \in 0..2 |-> array([n \in Grid |->
            path_average(v, d, axis_of(call.raypaths.val[d]), n)])])
grid_position(d, n) ==
    SDiv(n * params.value.microns3[d], call.points - 1)

\* index i is the grid index of direction d nearest to microns, lowest on ties
nearest(d, i, microns) ==
    /\ \A j \in Grid : Abs(grid_position(d, i) - microns)
                          <= Abs(grid_position(d, j) - microns)
    /\ \A j \in 0..(i - 1) : Abs(grid_position(d, j) - microns)
                                > Abs(grid_position(d, i) - microns)

\* where the residuals of direction d start in the flat sequence
offset(d) ==
    IF d = 0 THEN 0
    ELSE IF d = 1 THEN Size(call.data_x.val[0])
    ELSE Size(call.data_x.val[0]) + Size(call.data_x.val[1])

InvalidRaypath ==
    \/ call.raypaths.val[0] \notin {"b", "c"}
    \/ call.raypaths.val[1] \notin {"a", "c"}
    \/ call.raypaths.val[2] \notin {"a", "b"}

\* the last evaluation returned nothing
NothingReturned ==
    /\ out.x = Empty
    /\ out.y = Empty
    /\ out.res = Empty
    /\ out.v = Empty

\* C6: the valid ray-path labels are b, c for the profile along a; a, c for
\* the one along b; a, b for the one along c.  On a Parameter Set whose time
\* is not negative, if a label is outside the set of its direction or no ray
\* paths are supplied, diffusion3Dwb_params reports the invalid ray path and
\* returns None: no positions, no profiles, no residuals, whatever the data;
\* with three valid labels it does not fail so.
C6_RaypathValidation ==
    (Evaluated("diffusion3Dwb_params") /\ params.value.time_seconds >= 0) =>
        IF call.raypaths.none
        THEN out.kind = "None" /\ out.printed = <<MsgRaypaths>>
             /\ NothingReturned
        ELSE IF InvalidRaypath
        THEN /\ out.kind = "None"
             /\ out.printed[Len(out.printed)]
                    \in {MsgRaypath0, MsgRaypath1, MsgRaypath2}
             /\ NothingReturned
        ELSE /\ out.kind # "None"
             /\ \A i \in 1..Len(out.printed) :
                   out.printed[i] \notin
                       {MsgRaypaths, MsgRaypath0, MsgRaypath1, MsgRaypath2}

\* ray paths a, a, a with measured data supplied: nothing is returned
C6_Witness ==
    /\ Evaluated("diffusion3Dwb_params")
    /\ params.value.time_seconds >= 0
    /\ ~call.raypaths.none
    /\ \A d \in 0..2 : call.raypaths.val[d] = "a"
    /\ ~call.data_x.none
    /\ out.kind = "None"
    /\ NothingReturned

\* the last message printed by the last evaluation, if any
LastPrinted == IF out.printed = <<>> THEN "" ELSE out.printed[Len(out.printed)]
Printed(msg) == \E i \in 1..Len(out.printed) : out.printed[i] = msg

\* the last evaluation went through the 3D model
Through3D ==
    \/ call.fn = "diffusion3Dnpi_params"
    \/ call.fn = "diffusion3Dwb_params" /\ ~call.raypaths.none

\* C7: with time_seconds < 0, diffusion1D_params reports the negative time
\* and returns None, neither a profile nor residuals, in synthesis and in
\* fitting mode and for either method; through diffusion3Dnpi_params and
\* diffusion3Dwb_params the negative time is reported likewise and the
\* evaluation is aborted (the None cannot be unpacked), returning nothing.
\* A time of exactly 0 is not rejected.
C7_NegativeTimeRejected ==
    pc = "done" =>
        /\ params.value.time_seconds < 0 =>
              /\ ~Returned
              /\ NothingReturned
              /\ call.fn = "diffusion1D_params" =>
                    out.kind = "None" /\ out.printed = <<MsgNegativeTime>>
              /\ Through3D =>
                    out.kind = "TypeError" /\ LastPrinted = MsgNegativeTime
        /\ params.value.time_seconds = 0 =>
              /\ ~Printed(MsgNegativeTime)
              /\ out.kind # "TypeError"
              /\ call.fn = "diffusion1D_params"
                 /\ call.erf_or_sum \in {"erf", "infsum"} => Returned
              /\ call.fn = "diffusion3Dnpi_params" => Returned

\* a whole-block fit on a negative time: aborted, nothing returned
C7_Witness ==
    /\ Evaluated("diffusion3Dwb_params")
    /\ params.value.time_seconds < 0
    /\ ~call.raypaths.none
    /\ ~call.data_x.none
    /\ ~call.data_y.none
    /\ out.kind = "TypeError"
    /\ Printed(MsgNegativeTime)
    /\ NothingReturned

\* measured positions and values are both supplied and differ in length (1D)
\* or in shape (3D, whole block)
Mismatch ==
    /\ ~call.data_x.none
    /\ ~call.data_y.none
    /\ IF call.fn = "diffusion1D_params"
       THEN Size(call.data_x.val) # Size(call.data_y.val)
       ELSE np_shape(call.data_x.val) # np_shape(call.data_y.val)

\* C8: when measured positions and values are both supplied but differ in
\* length or shape, the evaluation fails with a shape-mismatch error and
\* returns neither synthesis-mode output nor residuals.
C8_ShapeMismatchIsError ==
    (pc = "done" /\ Mismatch) => ~Returned

\* the field the 3D model would return with its per-axis profiles computed
\* by the method the last call selected
field_by_selected_method ==
    LET y == array([k \in 0..2 |->
                 diffusion1D_params(p1D(params, k), None, None, call.erf_or_sum,
                                    TRUE, call.infinity, call.points).y])
    IN  field3D(y, scale_of_call.scale, scale_of_call.going_out,
                minimum_of_call, call.points)

\* C9: a solution-method selector other than erf and infsum is an error and
\* yields no profile, field or residuals in all three entry points; a
\* recognized selector passed to the 3D model is the method of the three
\* per-axis 1D evaluations.
C9_MethodSelector ==
    pc = "done" =>
        /\ call.erf_or_sum \notin {"erf", "infsum"} => ~Returned
        /\ (call.fn = "diffusion3Dnpi_params" /\ out.kind = "profile"
            /\ call.erf_or_sum \in {"erf", "infsum"}) =>
              out.v = field_by_selected_method

\* C10: in synthesis mode diffusion3Dnpi_params returns three slice profiles
\* of points entries, entry n being field[n,m,m], field[m,n,m] and
\* field[m,m,n] with m = floor(points/2), the center index of the whole-block
\* model too; and three position sequences of points evenly spaced values
\* from 0 to the edge length of the axis.
C10_CentralSlices ==
    (Evaluated("diffusion3Dnpi_params") /\ out.kind = "profile") =>
        LET m == call.points \div 2
        IN  /\ m = mid_wb(call.points)
            /\ DOMAIN out.y = 0..2
            /\ DOMAIN out.x = 0..2
            /\ \A k \in 0..2 : DOMAIN out.y[k] = Grid /\ DOMAIN out.x[k] = Grid
            /\ \A n \in Grid :
                  /\ out.y[0][n] = out.v[n][m][m]
                  /\ out.y[1][n] = out.v[m][n][m]
                  /\ out.y[2][n] = out.v[m][m][n]
            /\ \A k \in 0..2 :
                  /\ out.x[k][0] = 0
                  /\ out.x[k][call.points - 1] = params.value.microns3[k]
                  /\ \A n \in Grid :
                        out.x[k][n] * (call.points - 1)
                            = n * params.value.microns3[k]

\* slices on an odd grid whose center value differs from the edge value
C10_Witness ==
    /\ Evaluated("diffusion3Dnpi_params")
    /\ out.kind = "profile"
    /\ call.points = 3
    /\ \A k \in 0..2 : ~IsNaN(out.y[k][1]) /\ ~IsNaN(out.y[k][2])
    /\ out.y[0][1] # out.y[0][2]
    /\ out.y[1][1] = out.v[1][1][1]

\* what a first evaluation of the function of call c on Parameter Set prm returns
first_evaluation(prm, c) ==
    CASE c.fn = "diffusion1D_params" -> Apply1D(prm, c)
      [] c.fn = "diffusion3Dnpi_params" -> Apply3Dnpi(prm, c)
      [] c.fn = "diffusion3Dwb_params" -> Apply3Dwb(prm, c)

\* C11: an evaluation of diffusion1D_params, diffusion3Dnpi_params or
\* diffusion3Dwb_params leaves every value and vary flag of the Parameter Set
\* unchanged, whatever it returns, and after any sequence of evaluations and
\* optimizer updates the result held is the one a first evaluation on the
\* Parameter Set and the data, as they are after the call, returns.
C11_Pure ==
    [][/\ call' # call /\ pc' = "done" => params' = params
       /\ pc' = "done" => out' = first_evaluation(params', call')]_vars

\* a second evaluation on a Parameter Set with a varying diffusivity: the fit
\* of the profile the first one returned
C11_Witness ==
    /\ Evaluated("diffusion1D_params")
    /\ call.own
    /\ out.kind = "residual"
    /\ params.vary.log10D_m2s
    /\ out = first_evaluation(params, call)

\* the inverse temperatures of the dataset of the last fit
Tx_of_call ==
    [k \in DOMAIN call.celcius_list |-> 1000000 \div (call.celcius_list[k] + 27315)]

\* the line m/den * x + c/den leaves residuals to the dataset that sum to 0
\* and are orthogonal to the inverse temperatures: it is a least-squares line
least_squares(p, Tx, logD) ==
    LET r == [i \in DOMAIN Tx |-> (p.den * logD[i]) - (p.m * Tx[i]) - p.c]
    IN  /\ p.den # 0
        /\ FSum(r, Size(Tx)) = 0
        /\ FSum([i \in DOMAIN Tx |-> r[i] * Tx[i]], Size(Tx)) = 0

\* the dataset of the last fit can be fitted: not empty, no temperature at
\* -273.15 degrees
Fittable ==
    /\ Size(call.celcius_list) > 0
    /\ \A k \in DOMAIN call.celcius_list : call.celcius_list[k] # AbsoluteZero

\* C12 as claimed: make_Arrhenius_line fails and returns no line exactly when
\* the two sequences differ in length; for equal lengths it returns a line of
\* 100 points.
C12_FailsExactlyOnMismatch ==
    Evaluated("make_Arrhenius_line") =>
        IF Size(call.celcius_list) # Size(call.logD_list)
        THEN out.kind = "None" /\ NothingReturned
        ELSE out.kind = "profile" /\ DOMAIN out.x = 0..99 /\ DOMAIN out.y = 0..99

\* C12, amended: make_Arrhenius_line reports the length mismatch and returns
\* None exactly when the two sequences differ in length; for equal lengths,
\* at least one temperature and none at -273.15 degrees it returns 100 points,
\* x evenly spaced from the lower to the upper bound inclusive, each y the
\* least-squares first-degree polynomial at that x; for equal lengths and an
\* empty dataset or a temperature at -273.15 degrees it raises and returns
\* nothing.
C12_ArrheniusLine ==
    Evaluated("make_Arrhenius_line") =>
        LET lowD == call.range[1]
            highD == call.range[2]
            Tx == Tx_of_call
        IN  /\ (out.kind = "None") <=> (Size(call.celcius_list) # Size(call.logD_list))
            /\ out.kind = "None" => out.printed = <<MsgArrhenius>>
            /\ out.kind # "profile" => NothingReturned
            /\ (out.kind = "profile") <=>
                  (Fittable /\ Size(call.celcius_list) = Size(call.logD_list))
            /\ out.kind = "profile" =>
                  /\ DOMAIN out.x = 0..99
                  /\ DOMAIN out.y = 0..99
                  /\ out.x[0] = 99 * lowD
                  /\ out.x[99] = 99 * highD
                  /\ \A j \in 0..98 : out.x[j + 1] - out.x[j] = highD - lowD
                  /\ \E p \in {polyfit1(Tx, call.logD_list)} :
                        /\ least_squares(p, Tx, call.logD_list)
                        /\ \A j \in 0..99 :
                              /\ out.y[j].den = 99 * p.den
                              /\ out.y[j].num = (p.m * out.x[j]) + (99 * p.c)

\* a line fitted to three measurements at two temperatures that no line
\* passes through
C12_Witness ==
    /\ Evaluated("make_Arrhenius_line")
    /\ out.kind = "profile"
    /\ Size(call.celcius_list) = 3
    /\ call.range = <<6, 10>>
    /\ \E i, k \in DOMAIN call.celcius_list :
          /\ call.celcius_list[i] # call.celcius_list[k]
    /\ \E i, k \in DOMAIN call.celcius_list :
          /\ call.celcius_list[i] = call.celcius_list[k]
          /\ call.logD_list[i] # call.logD_list[k]
    /\ out.y[0] # out.y[99]

\* the profile the last 1D call's Parameter Set and grid give with a method
profile_by(method) ==
    diffusion1D_params(params, None, None, method, TRUE, call.infinity,
                       call.points).y

\* every term the truncation of the last 1D call leaves out is 0: the
\* truncated series is the whole series
series_complete ==
    LET m == (2 * call.infinity) + 1
        L == ToMeters(params.value.microns)
        Dt == D_m2s(params.value.log10D_m2s) * params.value.time_seconds
    IN  expNegPiSq(m * m * ((Dt * 1000) \div (L * L))) = 0

\* C13: for the same length, diffusivity, time, boundary values and
\* positions, the erf method and the series method with all its terms return
\* profiles that agree to within a small tolerance (here 3 hundredths of the
\* concentration range) at every position, for every time after 0.
C13_MethodsAgree ==
    (Evaluated("diffusion1D_params") /\ out.kind = "profile"
     /\ params.value.time_seconds > 0 /\ series_complete) =>
        LET by_erf == array(profile_by("erf"))
            by_sum == array(profile_by("infsum"))
            range == Abs(params.value.initial_unit_value
                         - params.value.final_unit_value)
        IN  \A i \in DOMAIN by_erf :
                /\ ~IsNaN(by_erf[i])
                /\ Abs(by_erf[i] - by_sum[i]) <= 3 * range

\* C14: diffusion3Dnpi_params treats the evaluation as diffusion out exactly
\* when diffusion1D_params would for the same shared values (initial > final)
\* and as diffusion in otherwise, also for initial values above 1 and for
\* initial = final; when in, the field is 1 minus the field computed as if
\* diffusing out, plus minimum_value, which is min(initial, final).
C14_DirectionMirrors1D ==
    (Evaluated("diffusion3Dnpi_params") /\ out.kind = "profile") =>
        LET initial == params.value.initial_unit_value_a
            final == params.value.final_unit_value_a
            y == array(profiles_of_call)
        IN  /\ scale_of_call.going_out <=> going_out1D(initial, final)
            /\ ~going_out1D(initial, final) =>
                  /\ minimum_of_call = Min(initial, final)
                  /\ \A i, j, k \in Grid :
                        out.v[i][j][k] =
                            FAdd(FSub(FDen, scaled_product(y, i, j, k)),
                                 Min(initial, final) * (FDen \div VDen))

\* the field diffusion3Dnpi_params returns, on the grid of the last call, for
\* the Parameter Set held with its shared boundary values replaced
field_for(initial, final) ==
    diffusion3Dnpi_params(
        [params EXCEPT !.value.initial_unit_value_a = initial,
                       !.value.final_unit_value_a = final],
        None, None, "erf", TRUE, 100, call.points).v

\* C15: when the shared initial value s exceeds 1, the scale factor is s and
\* the returned field is s times the field returned for the boundary values
\* (1, final/s), for every final value; when the initial value is at most 1
\* the scale factor is 1.  Stated for the final values for which final/s is
\* a boundary value of the model.
C15_ScaleTransparent ==
    (Evaluated("diffusion3Dnpi_params") /\ out.kind = "profile") =>
        LET s == params.value.initial_unit_value_a
            final == params.value.final_unit_value_a
        IN  IF s > VDen
            THEN /\ scale_of_call.scale = s
                 /\ (final * VDen) % s = 0 =>
                       LET unit == field_for(VDen, (final * VDen) \div s)
                       IN  \A i, j, k \in Grid :
                               FMul(out.v[i][j][k], VDen) = FMul(unit[i][j][k], s)
            ELSE scale_of_call.scale = VDen

\* every dimensionless 1D shape of the three per-axis evaluations of the last
\* 3D call lies in [0, 1]
shapes_in_unit_range ==
    \A k \in 0..2 :
        LET p == p1D(params, k).value
            L_meters == ToMeters(p.microns)
            x == x_meters1D(FALSE, None, TRUE, SDiv(L_meters, 2), call.points)
        IN  \A i \in DOMAIN x :
                shape1D("erf", x[i], D_m2s(p.log10D_m2s), p.time_seconds,
                        L_meters, 100) \in 0..SDen

\* a field value lies between the smaller and the larger shared boundary value
in_boundary_range(value) ==
    LET initial == params.value.initial_unit_value_a
        final == params.value.final_unit_value_a
    IN  /\ value >= Min(initial, final) * (FDen \div VDen)
        /\ value <= Max(initial, final) * (FDen \div VDen)

====
